---------------------------- MODULE Spec2Model ----------------------------
(***************************************************************************)
(* A model of the WHPC ingestion pipeline: the identity-resolving upsert   *)
(* (scraper/importer.py), the scrape orchestrator                          *)
(* (scraper/crawl4ai_scraper.py), the scheduled and manual runs            *)
(* (scheduler.py, app/routes.py, run.py) and the APScheduler jobs that     *)
(* start_scheduler registers.                                              *)
(***************************************************************************)
EXTENDS Integers, Sequences, FiniteSets, TLC

VARIABLES
    products,   \* committed rows of table "products"   (data/models.py Product)
    listings,   \* committed rows of table "listings"   (data/models.py Listing)
    scrape_logs,\* committed rows of table "scrape_logs", in insertion order
    now,        \* the value datetime.utcnow() returns, in clock ticks
    used,       \* history: records handed over so far in fresh calls
    again,      \* <<args>> of a call its caller is about to repeat, else <<>>
    seen,       \* history: the (name, brand) pairs of every committed record
    last,       \* history: what the most recent operation was and returned
    txn,        \* per concurrent caller: where its upsert_products call stands
    writer,     \* the caller whose transaction holds the store's write lock
    work,       \* the rows as the lock holder's open transaction sees them
    targets,    \* scrape_all: the targets it was called with
    results,    \* scrape_all: per target, what its scrape_retailer task ended with
    returned,   \* scrape_all: the value it returned, once it has
    clock,      \* scheduler: the time since start_scheduler, modulo the longest interval
    next_run_time, \* scheduler: per job, its next_run_time minus the current time
    instances,  \* scheduler: per job, the executions of it that are running
    event,      \* scheduler: per job, what _process_jobs last did with it
    outcome,    \* scheduler: per job, how its last finished execution ended
    api_key,    \* configuration: whether OUTSCRAPER_API_KEY is set
    run,        \* history: the most recent orchestrated run and how it went
    args,       \* a function of the scrapers on its own: its name and arguments
    value       \* what that function returned or that it raised, once it has

storeVars == <<products, listings, scrape_logs>>
histVars  == <<now, used, again, seen, last>>
concVars  == <<txn, writer, work>>

scrapeVars == <<targets, results, returned>>

schedVars == <<clock, next_run_time, instances, event, outcome>>

runVars == <<api_key, run>>

pureVars == <<args, value>>

vars == <<storeVars, histVars, concVars, scrapeVars, schedVars, runVars, pureVars>>

---------------------------------------------------------------------------
(* Bounds of the model *)

MaxRecords == 3   \* records handed to upsert_products in one behaviour,
                  \* over all its calls with freshly chosen arguments
                  \* (a call with an empty list counts as one)

---------------------------------------------------------------------------
(* Python values.  Text the code inspects character by character or tests  *)
(* for emptiness (names, descriptions, URLs, raw prices) is a tuple of     *)
(* one-character strings, "" being <<>>; labels the code only passes on or *)
(* compares as a whole (category, source, logo, tags) are strings.         *)

None == <<>>                               \* Optional[float]: None
Some(v) == <<v>>                           \* Optional[float]: a value

Truthy(s) == s /= <<>>                     \* truth value of a str

RECURSIVE Join(_)
Join(tags) ==                              \* ",".join(tags)
    IF tags = <<>> THEN ""
    ELSE IF Len(tags) = 1 THEN tags[1]
    ELSE tags[1] \o "," \o Join(Tail(tags))

Upper == <<"A", "B", "C", "D", "E", "F", "G", "H", "I", "J", "K", "L", "M", "N", "O", "P", "Q", "R", "S", "T", "U", "V", "W", "X", "Y", "Z">>
Lowercase == <<"a", "b", "c", "d", "e", "f", "g", "h", "i", "j", "k", "l", "m", "n", "o", "p", "q", "r", "s", "t", "u", "v", "w", "x", "y", "z">>

LowerChar(c) ==
    IF \E i \in 1 .. 26 : Upper[i] = c
    THEN Lowercase[CHOOSE i \in 1 .. 26 : Upper[i] = c]
    ELSE c

Lower(str) == [i \in 1 .. Len(str) |-> LowerChar(str[i])]     \* str.lower()

---------------------------------------------------------------------------
(* ScrapedProduct values the scrapers hand to the importer.  The sample    *)
(* covers: the same (name, brand) at one retailer with different field     *)
(* values (empty and non-empty description / image, original price present *)
(* and absent), the same product at a second retailer, and a name that    *)
(* differs only in case.                                                   *)

ScrapedProduct(name, brand, price, url, retailer, retailer_logo, original_price, image_url, description, category, in_stock, tags, scraped_at) ==
    [name |-> name, brand |-> brand, price |-> price, url |-> url,
     retailer |-> retailer, retailer_logo |-> retailer_logo,
     original_price |-> original_price, image_url |-> image_url,
     description |-> description, category |-> category,
     in_stock |-> in_stock, tags |-> tags, scraped_at |-> scraped_at]

(* scraped_at of a record is the clock when the scraper made it, which is  *)
(* before the clock of any call that is handed the record.                 *)
ScrapeTime == 0

Kit == <<"K", "i", "t">>
kit == <<"k", "i", "t">>
Acme == <<"A", "c", "m", "e">>
CVS == <<"C", "V", "S">>
Walgreens == <<"W", "a", "l", "g", "r", "e", "e", "n", "s">>

SampleBare ==
    ScrapedProduct(Kit, Acme, 10, <<"/", "a">>, CVS, "cvs.ico", None, <<>>, <<>>, "Pregnancy", TRUE, <<>>, ScrapeTime)
SampleFull ==
    ScrapedProduct(Kit, Acme, 8, <<"/", "b">>, CVS, "cvs2.ico", Some(10), <<"i", "a">>, <<"d", "a">>, "UTI", FALSE, <<"hcg", "strip">>, ScrapeTime)
SampleOther ==
    ScrapedProduct(Kit, Acme, 9, <<"/", "c">>, Walgreens, "wag.ico", None, <<"i", "b">>, <<"d", "b">>, "Pregnancy", TRUE, <<"hcg">>, ScrapeTime)
SampleCase ==
    ScrapedProduct(kit, Acme, 7, <<"/", "d">>, CVS, "cvs.ico", None, <<>>, <<"d", "c">>, "Thyroid", TRUE, <<>>, ScrapeTime)

Scraped == {SampleBare, SampleFull, SampleOther, SampleCase}

RECURSIVE SeqsUpTo(_, _)
SeqsUpTo(S, n) ==
    IF n = 0 THEN {<<>>}
    ELSE LET shorter == SeqsUpTo(S, n - 1)
         IN  shorter \cup {Append(q, e) : q \in shorter, e \in S}

Batches(n) == SeqsUpTo(Scraped, n)          \* the record lists of length <= n

Sources == {"crawl4ai", "outscraper"}

---------------------------------------------------------------------------
(* The store: rows are records with an integer primary key *)

NextId(rows) ==                            \* INTEGER PRIMARY KEY: max + 1
    IF rows = {} THEN 1
    ELSE (CHOOSE r \in rows : \A q \in rows : q.id <= r.id).id + 1

First(rows) ==                             \* Query.first(): lowest rowid
    CHOOSE r \in rows : \A q \in rows : r.id <= q.id

FindProductAnyCase(prods, name, brand) ==  \* a case-insensitive match
    {p \in prods : Lower(p.name) = Lower(name) /\ p.brand = brand}

FindProductNone(prods, name, brand) == {}

FindProduct(prods, name, brand) ==         \* filter_by(name=, brand=)
    {p \in prods : p.name = name /\ p.brand = brand}

FindListingWrongColumn(lsts, product_id, retailer) ==
    {l \in lsts : l.product_id = product_id /\ l.url = retailer}

FindListingNone(lsts, product_id, retailer) == {}

FindListing(lsts, product_id, retailer) == \* filter_by(product_id=, retailer=)
    {l \in lsts : l.product_id = product_id /\ l.retailer = retailer}

NewProduct(prods, sp, t) ==
    [id |-> NextId(prods), name |-> sp.name, brand |-> sp.brand,
     category |-> sp.category, description |-> sp.description,
     image_url |-> sp.image_url, tags |-> Join(sp.tags), created_at |-> t]

BackFillCategory(p, sp) ==
    LET d == IF ~Truthy(p.description) /\ Truthy(sp.description) THEN sp.description ELSE p.description
        i == IF ~Truthy(p.image_url) /\ Truthy(sp.image_url) THEN sp.image_url ELSE p.image_url
    IN  [p EXCEPT !.description = d, !.image_url = i, !.category = sp.category]

BackFillAlways(p, sp) ==
    LET d == IF Truthy(sp.description) THEN sp.description ELSE p.description
        i == IF Truthy(sp.image_url) THEN sp.image_url ELSE p.image_url
    IN  [p EXCEPT !.description = d, !.image_url = i]

BackFill(p, sp) ==
    LET d == IF Truthy(sp.description) /\ ~Truthy(p.description)
             THEN sp.description ELSE p.description
        i == IF Truthy(sp.image_url) /\ ~Truthy(p.image_url)
             THEN sp.image_url ELSE p.image_url
    IN  [p EXCEPT !.description = d, !.image_url = i]

(* Listing(product_id=, retailer=): the columns lines 62-69 assign are    *)
(* left out of the fresh row, every one of them is set before the flush.  *)
NewListing(lsts, product_id, retailer) ==
    [id |-> NextId(lsts), product_id |-> product_id, retailer |-> retailer,
     currency |-> "USD"]

SetListingKeepOriginal(l, sp, source, t) ==
    [id |-> l.id, product_id |-> l.product_id, retailer |-> l.retailer,
     currency |-> l.currency,
     price |-> sp.price,
     original_price |-> IF sp.original_price = None /\ "original_price" \in DOMAIN l
                        THEN l.original_price ELSE sp.original_price,
     url |-> sp.url, retailer_logo |-> sp.retailer_logo,
     in_stock |-> sp.in_stock, source |-> source, scraped_at |-> t]

SetListing(l, sp, source, t) ==
    [id |-> l.id, product_id |-> l.product_id, retailer |-> l.retailer,
     currency |-> l.currency,
     price |-> sp.price, original_price |-> sp.original_price,
     url |-> sp.url, retailer_logo |-> sp.retailer_logo,
     in_stock |-> sp.in_stock, source |-> source, scraped_at |-> t]

UpsertOneCountsNew(s, sp, source, t) ==
    LET found    == FindProduct(s.products, sp.name, sp.brand)
        isNew    == found = {}
        product  == IF isNew THEN NewProduct(s.products, sp, t)
                    ELSE BackFill(First(found), sp)
        prods1   == IF isNew THEN s.products \cup {product}
                    ELSE (s.products \ {First(found)}) \cup {product}
        lfound   == FindListing(s.listings, product.id, sp.retailer)
        old      == IF lfound = {} THEN NewListing(s.listings, product.id, sp.retailer)
                    ELSE First(lfound)
        listing  == SetListing(old, sp, source, t)
        lsts1    == (s.listings \ {old}) \cup {listing}
    IN  [products |-> prods1, listings |-> lsts1,
         created  |-> IF isNew THEN s.created + 1 ELSE s.created,
         upserted |-> IF lfound = {} THEN s.upserted + 1 ELSE s.upserted]

(* One pass of the loop body of upsert_products on the session's view s.   *)
UpsertOne(s, sp, source, t) ==
    LET found    == FindProduct(s.products, sp.name, sp.brand)
        isNew    == found = {}
        product  == IF isNew THEN NewProduct(s.products, sp, t)
                    ELSE BackFill(First(found), sp)
        prods1   == IF isNew THEN s.products \cup {product}
                    ELSE (s.products \ {First(found)}) \cup {product}
        lfound   == FindListing(s.listings, product.id, sp.retailer)
        old      == IF lfound = {} THEN NewListing(s.listings, product.id, sp.retailer)
                    ELSE First(lfound)
        listing  == SetListing(old, sp, source, t)
        lsts1    == (s.listings \ {old}) \cup {listing}
    IN  [products |-> prods1, listings |-> lsts1,
         created  |-> IF isNew THEN s.created + 1 ELSE s.created,
         upserted |-> s.upserted + 1]

(* The loop of upsert_products over the first k records of the list.       *)
RECURSIVE UpsertRun(_, _, _, _, _)
UpsertRun(s, scraped, k, source, t) ==
    IF k = 0 THEN s
    ELSE UpsertOne(UpsertRun(s, scraped, k - 1, source, t), scraped[k], source, t)

Session(prods, lsts) ==
    [products |-> prods, listings |-> lsts, created |-> 0, upserted |-> 0]

RetainedFlushed(committed, partial) == partial

(* What the store retains of a call that raised before db.session.commit() *)
(* on line 72: the flushed rows belong to the open transaction, which the  *)
(* session discards, so the committed rows stand.                          *)
RetainedOnFailure(committed, partial) == committed

(* upsert_products(scraped, source): failAt = 0 is a call that returns;    *)
(* failAt = k in 1 .. Len(scraped) raises while record k is processed,     *)
(* after records 1 .. k-1 were flushed; failAt = Len(scraped) + 1 raises   *)
(* in the commit itself.                                                   *)
upsert_products(prods, lsts, scraped, source, t, failAt) ==
    LET s0 == Session(prods, lsts)
    IN  IF failAt = 0
        THEN LET s == UpsertRun(s0, scraped, Len(scraped), source, t)
             IN  [ok |-> TRUE, products |-> s.products, listings |-> s.listings,
                  created |-> s.created, upserted |-> s.upserted,
                  flushed |-> Len(scraped)]
        ELSE LET p == UpsertRun(s0, scraped, failAt - 1, source, t)
                 r == RetainedOnFailure(s0, p)
             IN  [ok |-> FALSE, products |-> r.products, listings |-> r.listings,
                  created |-> 0, upserted |-> 0, flushed |-> failAt - 1]

Keys(scraped) == {<<scraped[i].name, scraped[i].brand>> : i \in 1 .. Len(scraped)}

---------------------------------------------------------------------------
(* crawl4ai_scraper.py: from a fetched page to ScrapedProduct values *)

(* A float is counted in thousandths; the texts the model feeds carry at   *)
(* most three decimals.                                                    *)
Digits == <<"0", "1", "2", "3", "4", "5", "6", "7", "8", "9">>

IsDigit(c) == \E i \in 1 .. 10 : Digits[i] = c

DigitVal(c) == (CHOOSE i \in 1 .. 10 : Digits[i] = c) - 1

RECURSIVE IntOf(_)
IntOf(ds) ==                               \* value of a run of digits
    IF ds = <<>> THEN 0
    ELSE 10 * IntOf(SubSeq(ds, 1, Len(ds) - 1)) + DigitVal(ds[Len(ds)])

Whitespace == {" ", "\t", "\n"}

RECURSIVE LStrip(_)
LStrip(s) ==
    IF s /= <<>> /\ s[1] \in Whitespace THEN LStrip(Tail(s)) ELSE s

RECURSIVE RStrip(_)
RStrip(s) ==
    IF s /= <<>> /\ s[Len(s)] \in Whitespace
    THEN RStrip(SubSeq(s, 1, Len(s) - 1)) ELSE s

Strip(s) == RStrip(LStrip(s))              \* str.strip()

RECURSIVE LStripChar(_, _)
LStripChar(s, c) ==                        \* str.lstrip(c)
    IF s /= <<>> /\ s[1] = c THEN LStripChar(Tail(s), c) ELSE s

RECURSIVE RStripChar(_, _)
RStripChar(s, c) ==                        \* str.rstrip(c)
    IF s /= <<>> /\ s[Len(s)] = c
    THEN RStripChar(SubSeq(s, 1, Len(s) - 1), c) ELSE s

StartsWith(s, prefix) ==                   \* str.startswith(prefix)
    Len(s) >= Len(prefix) /\ SubSeq(s, 1, Len(prefix)) = prefix

Contains(text, sub) ==                     \* sub in text
    \E i \in 0 .. Len(text) - Len(sub) : SubSeq(text, i + 1, i + Len(sub)) = sub

Replace(s, c) == SelectSeq(s, LAMBDA x : x /= c)   \* str.replace(c, "")

(* A value of a raw item: the text of a str, or the digits of a number     *)
(* (what the LLM strategy returns for "price (numeric USD)").              *)
Str(s) == [t |-> "str", v |-> s]
Num(s) == [t |-> "num", v |-> s]

Falsy(x) == x.v = <<>> \/ x = Num(<<"0">>)  \* "", 0

Get(raw_item, key) ==                      \* raw_item.get(key) or ""
    IF key \in DOMAIN raw_item /\ ~Falsy(raw_item[key])
    THEN raw_item[key] ELSE Str(<<>>)

Returned(v) == [raised |-> FALSE, value |-> v]
Raised == [raised |-> TRUE, value |-> <<>>]

IsPriceChar(c) == IsDigit(c) \/ c = ","    \* [\d,]

RECURSIVE PriceRunEnd(_, _)
PriceRunEnd(s, i) ==                       \* where the run [\d,]+ from i ends
    IF i <= Len(s) /\ IsPriceChar(s[i]) THEN PriceRunEnd(s, i + 1) ELSE i - 1

RECURSIVE DigitRunEnd(_, _)
DigitRunEnd(s, i) ==                       \* where the run \d* from i ends
    IF i <= Len(s) /\ IsDigit(s[i]) THEN DigitRunEnd(s, i + 1) ELSE i - 1

FloatTruncated(intPart, fracPart) == 1000 * IntOf(intPart)

Float(intPart, fracPart) ==                \* float("12.5") = 12500 thousandths
    LET padded == fracPart \o <<"0", "0", "0">>
    IN  1000 * IntOf(intPart) + IntOf(SubSeq(padded, 1, 3))

(* re.search(r"[\d,]+\.?\d*", raw.replace(",", "")): the leftmost run of    *)
(* digits, a dot if one follows, and the digits after it.                  *)
_parse_price(raw) ==
    IF raw.v = <<>> THEN Returned(None)
    ELSE IF raw.t /= "str" THEN Raised     \* a float has no .replace
    ELSE LET s == Replace(raw.v, ",")
         IN  IF ~ \E i \in 1 .. Len(s) : IsPriceChar(s[i]) THEN Returned(None)
             ELSE LET i == CHOOSE k \in 1 .. Len(s) :
                               IsPriceChar(s[k]) /\ \A m \in 1 .. k - 1 : ~IsPriceChar(s[m])
                      e == PriceRunEnd(s, i)
                      dot == e < Len(s) /\ s[e + 1] = "."
                      f == IF dot THEN DigitRunEnd(s, e + 2) ELSE e
                  IN  Returned(Some(Float(SubSeq(s, i, e), SubSeq(s, e + 2, f))))

brand_sites == {<<"E", "v", "e", "r", "l", "y", "w", "e", "l", "l">>, <<"L", "e", "t", "s", "G", "e", "t", "C", "h", "e", "c", "k", "e", "d">>, <<"L", "a", "b", "c", "o", "r", "p", " ", "O", "n", " ", "D", "e", "m", "a", "n", "d">>, <<"Q", "u", "e", "s", "t", " ", "D", "i", "a", "g", "n", "o", "s", "t", "i", "c", "s">>}

known_brands == <<<<"C", "l", "e", "a", "r", "b", "l", "u", "e">>, <<"F", "i", "r", "s", "t", " ", "R", "e", "s", "p", "o", "n", "s", "e">>, <<"P", "r", "e", "g", "m", "a", "t", "e">>, <<"E", "a", "s", "y", "@", "H", "o", "m", "e">>, <<"P", "r", "o", "o", "v">>, <<"I", "n", "i", "t", "o">>, <<"M", "i", "r", "a">>, <<"W", "i", "s", "p">>, <<"E", "v", "e", "r", "l", "y", "w", "e", "l", "l">>, <<"L", "e", "t", "s", "G", "e", "t", "C", "h", "e", "c", "k", "e", "d">>, <<"N", "u", "r", "x">>, <<"a", "t", "&", "t">>, <<"S", "t", "i", "x">>, <<"M", "o", "m", "M", "e", "d">>>>

_infer_brand(name, retailer) ==
    IF retailer \in brand_sites THEN retailer
    ELSE IF \E i \in 1 .. Len(known_brands) : Contains(Lower(name), Lower(known_brands[i]))
    THEN known_brands[CHOOSE i \in 1 .. Len(known_brands) :
                          /\ Contains(Lower(name), Lower(known_brands[i]))
                          /\ \A j \in 1 .. i - 1 : ~Contains(Lower(name), Lower(known_brands[j]))]
    ELSE retailer

CategoryRules == <<
    [category |-> "Pregnancy", keywords |-> <<<<"p", "r", "e", "g", "n", "a", "n">>, <<"p", "r", "e", "g", "n", "a", "n", "c", "y">>>>],
    [category |-> "Ovulation & Fertility", keywords |-> <<<<"o", "v", "u", "l", "a", "t">>, <<"f", "e", "r", "t", "i", "l", "i", "t", "y">>, <<"l", "h", " ", "s", "u", "r", "g", "e">>, <<"f", "s", "h">>>>],
    [category |-> "STI / STD", keywords |-> <<<<"s", "t", "i">>, <<"s", "t", "d">>, <<"c", "h", "l", "a", "m", "y", "d", "i", "a">>, <<"g", "o", "n", "o", "r", "r", "h", "e", "a">>, <<"h", "i", "v">>, <<"h", "e", "r", "p", "e", "s">>, <<"s", "y", "p", "h", "i", "l", "i", "s">>>>],
    [category |-> "Menopause & FSH", keywords |-> <<<<"m", "e", "n", "o", "p", "a", "u", "s", "e">>, <<"p", "e", "r", "i", "m", "e", "n", "o", "p", "a", "u", "s", "e">>>>],
    [category |-> "Thyroid", keywords |-> <<<<"t", "h", "y", "r", "o", "i", "d">>, <<"t", "s", "h">>, <<"t", "3">>, <<"t", "4">>>>],
    [category |-> "Hormone Panel", keywords |-> <<<<"h", "o", "r", "m", "o", "n", "e">>, <<"e", "s", "t", "r", "o", "g", "e", "n">>, <<"p", "r", "o", "g", "e", "s", "t", "e", "r", "o", "n", "e">>, <<"t", "e", "s", "t", "o", "s", "t", "e", "r", "o", "n", "e">>, <<"c", "o", "r", "t", "i", "s", "o", "l">>>>],
    [category |-> "UTI", keywords |-> <<<<"u", "t", "i">>, <<"u", "r", "i", "n", "a", "r", "y", " ", "t", "r", "a", "c", "t">>>>],
    [category |-> "Vaginal Health", keywords |-> <<<<"v", "a", "g", "i", "n", "a", "l">>, <<"b", "v">>, <<"b", "a", "c", "t", "e", "r", "i", "a", "l", " ", "v", "a", "g", "i", "n", "o", "s", "i", "s">>, <<"y", "e", "a", "s", "t">>, <<"p", "h">>>>],
    [category |-> "PCOS", keywords |-> <<<<"p", "c", "o", "s">>, <<"p", "o", "l", "y", "c", "y", "s", "t", "i", "c">>>>],
    [category |-> "Breast Cancer Risk", keywords |-> <<<<"b", "r", "c", "a">>, <<"b", "r", "e", "a", "s", "t", " ", "c", "a", "n", "c", "e", "r">>, <<"g", "e", "n", "e", "t", "i", "c">>>>] >>

_infer_category_last(name, description) ==
    LET text == Lower(name \o <<" ">> \o description)
        Hit(i) == \E k \in 1 .. Len(CategoryRules[i].keywords) :
                      Contains(text, CategoryRules[i].keywords[k])
    IN  IF \E i \in 1 .. Len(CategoryRules) : Hit(i)
        THEN CategoryRules[CHOOSE i \in 1 .. Len(CategoryRules) :
                               Hit(i) /\ \A j \in i + 1 .. Len(CategoryRules) : ~Hit(j)].category
        ELSE "General Wellness"

_infer_category(name, description) ==
    LET text == Lower(name \o <<" ">> \o description)
        Hit(i) == \E k \in 1 .. Len(CategoryRules[i].keywords) :
                      Contains(text, CategoryRules[i].keywords[k])
    IN  IF \E i \in 1 .. Len(CategoryRules) : Hit(i)
        THEN CategoryRules[CHOOSE i \in 1 .. Len(CategoryRules) :
                               Hit(i) /\ \A j \in 1 .. i - 1 : ~Hit(j)].category
        ELSE "General Wellness"

Http == <<"h", "t", "t", "p">>

NoSchema == <<>>                           \* RETAILER_SCHEMAS.get(retailer) is None

BaseUrlOf(schema) ==                       \* (schema or {}).get("base_url", "")
    IF "base_url" \in DOMAIN schema THEN schema.base_url ELSE <<>>

_normalize(raw_item, retailer, retailer_logo, base_url, schema) ==
    LET nameRaw == Get(raw_item, "name")
        price == _parse_price(Get(raw_item, "price"))
        name == Strip(nameRaw.v)
        urlGot == Get(raw_item, "url")
        urlRaw == urlGot.v
        declared_base == RStripChar(BaseUrlOf(schema), "/")
        fallback_base == RStripChar(base_url, "/")
        root == IF Truthy(declared_base) THEN declared_base ELSE fallback_base
        url == IF Truthy(urlRaw) /\ ~StartsWith(urlRaw, Http)
               THEN root \o <<"/">> \o LStripChar(urlRaw, "/") ELSE urlRaw
        original_price == _parse_price(Get(raw_item, "original_price"))
        descRaw == Get(raw_item, "description")
        description == Strip(descRaw.v)
        in_stock == IF "in_stock" \in DOMAIN raw_item
                    THEN ~Falsy(raw_item["in_stock"]) ELSE TRUE
    IN  IF nameRaw.t /= "str" \/ price.raised THEN Raised
        ELSE IF ~Truthy(name) \/ price.value = None THEN Returned(<<>>)
        ELSE IF urlGot.t /= "str" \/ original_price.raised \/ descRaw.t /= "str" THEN Raised
        ELSE Returned(<<ScrapedProduct(name, _infer_brand(name, retailer), price.value[1], url, retailer, retailer_logo, original_price.value, Get(raw_item, "image_url").v, description, _infer_category(name, description), in_stock, <<>>, ScrapeTime)>>)

---------------------------------------------------------------------------
(* Specification Spec: a sequence of upsert_products calls on the catalog. *)
(* Every call reads a later clock than the one before it.  A caller may    *)
(* make the same call twice in a row (ApplyFirst, then ApplySecond).       *)

Procs == {"crawl4ai", "outscraper"}   \* concurrent callers, by the source they pass

IdleTxn ==
    [pc |-> "idle", scraped |-> <<>>, i |-> 0, prod |-> {}, pend |-> <<>>,
     created |-> 0, upserted |-> 0]

EmptyStore ==                          \* db.create_all() on a fresh database
    /\ products = {}
    /\ listings = {}
    /\ scrape_logs = <<>>

NoCallers ==
    /\ txn = [p \in Procs |-> IdleTxn]
    /\ writer = ""
    /\ work = [products |-> {}, listings |-> {}]

NoScrape ==
    /\ targets = <<>>
    /\ results = <<>>
    /\ returned = <<>>

JobIds == {"crawl4ai_refresh", "outscraper_refresh"}

NoEvent == [kind |-> "none", late |-> FALSE, coalesced |-> FALSE]

NoScheduler ==                         \* start_scheduler has not been called
    /\ clock = 0
    /\ next_run_time = [j \in JobIds |-> 0]
    /\ instances = [j \in JobIds |-> 0]
    /\ event = [j \in JobIds |-> NoEvent]
    /\ outcome = [j \in JobIds |-> "none"]

NoRun ==
    [kind |-> "none", source |-> "", scraped |-> <<>>, raised |-> "", rows |-> 0, propagated |-> FALSE]

NoRuns ==
    /\ api_key = FALSE
    /\ run = NoRun

NoArgs == [fn |-> "none"]

NotReturned == <<>>

NoFunction ==
    /\ args = NoArgs
    /\ value = NotReturned

NoCall ==
    [op |-> "init", source |-> "", ok |-> TRUE, scraped |-> <<>>,
     created |-> 0, upserted |-> 0, flushed |-> 0]

Init ==
    /\ EmptyStore
    /\ NoCallers
    /\ NoScrape
    /\ NoScheduler
    /\ NoRuns
    /\ NoFunction
    /\ now = 0
    /\ used = 0
    /\ again = <<>>
    /\ seen = {}
    /\ last = NoCall

Cost(scraped) == IF scraped = <<>> THEN 1 ELSE Len(scraped)

Call(op, scraped, source, failAt) ==
    LET t == now + 1
        r == upsert_products(products, listings, scraped, source, t, failAt)
    IN  /\ products' = r.products
        /\ listings' = r.listings
        /\ now' = t
        /\ seen' = IF r.ok THEN seen \cup Keys(scraped) ELSE seen
        /\ last' = [op |-> op, source |-> source, ok |-> r.ok, scraped |-> scraped,
                    created |-> r.created, upserted |-> r.upserted,
                    flushed |-> r.flushed]
        /\ UNCHANGED <<scrape_logs, concVars, scrapeVars, schedVars, runVars, pureVars>>

Apply ==
    /\ again = <<>>
    /\ used < MaxRecords
    /\ \E scraped \in Batches(MaxRecords - used), source \in Sources :
         \E failAt \in 0 .. Len(scraped) + 1 :
            /\ used + Cost(scraped) <= MaxRecords
            /\ used' = used + Cost(scraped)
            /\ Call("apply", scraped, source, failAt)
            /\ again' = <<>>

ApplyFirst ==
    /\ again = <<>>
    /\ used < MaxRecords
    /\ \E scraped \in Batches(MaxRecords - used), source \in Sources :
            /\ used + Cost(scraped) <= MaxRecords
            /\ used' = used + Cost(scraped)
            /\ Call("apply", scraped, source, 0)
            /\ again' = <<[scraped |-> scraped, source |-> source]>>

ApplySecond ==
    /\ again /= <<>>
    /\ Call("again", again[1].scraped, again[1].source, 0)
    /\ again' = <<>>
    /\ UNCHANGED used

Next == Apply \/ ApplyFirst \/ ApplySecond

Spec == Init /\ [][Next]_vars

---------------------------------------------------------------------------
(* Claims about upsert_products, checked under Spec *)

KeyOf(p) == <<p.name, p.brand>>

ListingKeys(scraped) ==
    {<<scraped[i].name, scraped[i].brand, scraped[i].retailer>> :
        i \in 1 .. Len(scraped)}

ListingKeyOf(l) ==
    LET p == CHOOSE q \in products : q.id = l.product_id
    IN  <<p.name, p.brand, l.retailer>>

(* C1: after any sequence of upsert_products calls the catalog holds       *)
(* exactly one Product row for every (name, brand) pair of a committed     *)
(* record, the pair compared by exact, case-sensitive equality.            *)
C1_ProductIdentity ==
    /\ \A k \in seen : Cardinality({p \in products : KeyOf(p) = k}) = 1
    /\ \A p, q \in products : KeyOf(p) = KeyOf(q) => p = q

(* C1 witness: the catalog holds "Kit" and "kit" side by side; the last    *)
(* call handed over two records and created one product, and the listing   *)
(* of the other product is older than the call, so both records carried    *)
(* the same (name, brand).                                                 *)
C1_Witness ==
    /\ last.ok /\ last.created = 1 /\ last.upserted = 2
    /\ seen = {<<Kit, Acme>>, <<kit, Acme>>}
    /\ Cardinality(products) = 2
    /\ \E l \in listings : l.scraped_at < now

(* C2, as stated: the second of two identical calls returns created = 0    *)
(* and leaves every field of every product and listing as the first call   *)
(* left it.                                                                 *)
C2_Original ==
    [][ (again /= <<>> /\ again' = <<>>)
            => /\ last'.created = 0
               /\ products' = products
               /\ listings' = listings ]_vars

(* C2, amended: the second of two identical calls returns created = 0,     *)
(* leaves the products as they are, adds and removes no listing, and       *)
(* changes nothing of a listing but the scraped_at of the listings of the   *)
(* list's records, which it sets to the time of the second call.           *)
C2_Idempotent ==
    [][ (again /= <<>> /\ again' = <<>>)
            => /\ last'.created = 0
               /\ products' = products
               /\ listings' =
                    { IF ListingKeyOf(l) \in ListingKeys(again[1].scraped)
                      THEN [l EXCEPT !.scraped_at = now'] ELSE l
                      : l \in listings } ]_vars

(* C2 witness: a list of two records was applied a second time to a        *)
(* catalog that was not empty before the first time.                       *)
C2_Witness ==
    /\ last.op = "again" /\ last.upserted = 2 /\ last.created = 0
    /\ used = MaxRecords

(* C3: a call that raises, at whichever record and also in the commit,     *)
(* leaves products and listings as they were before the call.              *)
C3_Atomic ==
    [][ (now' /= now /\ ~last'.ok)
            => (products' = products /\ listings' = listings) ]_vars

(* C3 witness: a call raised after at least one record had been flushed,   *)
(* on a catalog that was not empty.                                        *)
C3_Witness ==
    ~last.ok /\ last.flushed >= 1 /\ products /= {}

Called == now' /= now /\ last'.ok         \* this step is a call that returned

SamePair(l, m) == l.product_id = m.product_id /\ l.retailer = m.retailer

(* C11: no two Listing rows have the same (product_id, retailer); a call   *)
(* keeps every Listing row under its id and pair, so a record for a pair   *)
(* that has a row changes that row and adds none.                          *)
C11_ListingUnique ==
    /\ [](\A l, m \in listings : SamePair(l, m) => l = m)
    /\ [][\A l \in listings :
            /\ \E m \in listings' : m.id = l.id /\ SamePair(l, m)
            /\ Cardinality({m \in listings' : SamePair(l, m)}) = 1]_vars

(* C11 witness: a call with one record met the listing of its pair, made   *)
(* by an earlier call from a record with other values, and left one row.   *)
C11_Witness ==
    /\ last.ok /\ last.scraped = <<SampleFull>> /\ last.created = 0
    /\ Cardinality(listings) = 1
    /\ \E l \in listings : l.price = SampleFull.price /\ l.scraped_at = now
    /\ \E p \in products : p.created_at < now /\ p.description = SampleFull.description

RECURSIVE FirstTruthy(_, _, _)
FirstTruthy(scraped, key, field) ==        \* the first non-empty value offered for key
    IF scraped = <<>> THEN <<>>
    ELSE IF <<scraped[1].name, scraped[1].brand>> = key /\ Truthy(scraped[1][field])
    THEN scraped[1][field]
    ELSE FirstTruthy(Tail(scraped), key, field)

Backfilled(stored, scraped, key, field) ==
    IF Truthy(stored) THEN stored ELSE FirstTruthy(scraped, key, field)

(* C12: a call leaves a stored non-empty description or image_url of a     *)
(* product as it is, and sets an empty one from the first record of the    *)
(* product in the list whose value is non-empty, if there is one.          *)
C12_BackfillOnly ==
    [][Called => \A p \in products : \E q \in products' :
            /\ q.id = p.id
            /\ q.description = Backfilled(p.description, last'.scraped, KeyOf(p), "description")
            /\ q.image_url = Backfilled(p.image_url, last'.scraped, KeyOf(p), "image_url")]_vars

(* C12 witness: a product stored with neither value (its first listing is  *)
(* the CVS one) was handed a record with both values and then a record     *)
(* with other values: it took the first record's values and kept them.     *)
C12_Witness ==
    /\ last.ok /\ last.scraped = <<SampleOther, SampleFull>> /\ last.created = 0
    /\ \E l, m \in listings : l.retailer = CVS /\ m.retailer = Walgreens /\ l.id < m.id
    /\ \E p \in products :
         /\ p.created_at < now
         /\ KeyOf(p) = <<Kit, Acme>>
         /\ p.description = SampleOther.description
         /\ p.image_url = SampleOther.image_url

RECURSIVE LastRecord(_, _)
LastRecord(scraped, key) ==                \* the last record of the list for a listing
    LET sp == scraped[Len(scraped)]
    IN  IF <<sp.name, sp.brand, sp.retailer>> = key THEN sp
        ELSE LastRecord(SubSeq(scraped, 1, Len(scraped) - 1), key)

Overwritten(l, m, sp) ==
    /\ m.price = sp.price
    /\ m.original_price = sp.original_price
    /\ m.url = sp.url
    /\ m.in_stock = sp.in_stock
    /\ m.source = last'.source

Touched(l) == ListingKeyOf(l) \in ListingKeys(last'.scraped)

NoneNew == \A k \in ListingKeys(last'.scraped) : \E l \in listings : ListingKeyOf(l) = k

(* C13 as stated: the listing of a pair that a record of the call names    *)
(* gets the record's price, original_price, url, in_stock and scraped_at   *)
(* and the call's source, and a call whose records all name existing       *)
(* listings creates no product.                                            *)
C13_Original ==
    [][Called =>
        /\ \A l \in listings : Touched(l) => \E m \in listings' :
              /\ m.id = l.id
              /\ Overwritten(l, m, LastRecord(last'.scraped, ListingKeyOf(l)))
              /\ m.scraped_at = LastRecord(last'.scraped, ListingKeyOf(l)).scraped_at
        /\ NoneNew => last'.created = 0]_vars

(* C13 amended: as stated, but scraped_at becomes the clock of the call.   *)
C13_Overwrite ==
    [][Called =>
        /\ \A l \in listings : Touched(l) => \E m \in listings' :
              /\ m.id = l.id
              /\ Overwritten(l, m, LastRecord(last'.scraped, ListingKeyOf(l)))
              /\ m.scraped_at = now'
        /\ NoneNew => last'.created = 0]_vars

(* C13 witness: a listing that had an original_price, a lower price and    *)
(* in_stock false was handed a record without original_price and now has   *)
(* none, with the record's price and url.                                  *)
C13_Witness ==
    /\ last.ok /\ last.scraped = <<SampleBare>> /\ last.created = 0
    /\ \E p \in products : p.description = SampleFull.description
    /\ \E l \in listings :
         /\ l.retailer = CVS /\ l.original_price = None
         /\ l.price = SampleBare.price /\ l.url = SampleBare.url /\ l.in_stock
         /\ l.scraped_at = now

(* C14: a call that returns hands back upserted = the length of its list   *)
(* and created = the number of distinct (name, brand) pairs of the list    *)
(* that had no Product before the call.                                    *)
C14_Counts ==
    [][Called =>
        /\ last'.upserted = Len(last'.scraped)
        /\ last'.created =
             Cardinality({k \in Keys(last'.scraped) : ~ \E p \in products : KeyOf(p) = k})]_vars

(* C14 witness: a list of two records with two (name, brand) pairs, one of *)
(* them of a product and listing stored by an earlier call.                *)
C14_Witness ==
    /\ last.ok /\ Len(last.scraped) = 2 /\ last.upserted = 2 /\ last.created = 1
    /\ Cardinality(Keys(last.scraped)) = 2
    /\ Cardinality(products) = 2 /\ Cardinality(listings) = 2

(* C29: a call leaves every Product that existed before it in place with   *)
(* its name, brand, category and tags, and every Listing in place with its *)
(* product and retailer, so the product keys and the listing pairs of the  *)
(* catalog only grow.                                                      *)
C29_Frame ==
    [][/\ \A p \in products : \E q \in products' :
            /\ q.id = p.id /\ q.name = p.name /\ q.brand = p.brand
            /\ q.category = p.category /\ q.tags = p.tags
       /\ \A l \in listings : \E m \in listings' : m.id = l.id /\ SamePair(l, m)
       /\ {KeyOf(p) : p \in products} \subseteq {KeyOf(q) : q \in products'}]_vars

(* C29 witness: a product stored with category UTI and two tags was handed *)
(* a record of category Pregnancy with one tag and has kept its own.       *)
C29_Witness ==
    /\ last.ok /\ last.scraped = <<SampleOther>> /\ last.created = 0
    /\ \E p \in products :
         /\ p.created_at < now
         /\ p.category = SampleFull.category /\ p.tags = Join(SampleFull.tags)
    /\ Cardinality(listings) = 2

---------------------------------------------------------------------------
(* Specification ConcSpec: two upsert_products calls that run at the same  *)
(* time, each in its own session (scheduler.py runs the two jobs on a      *)
(* thread pool; the development server runs /api/scrape on its own         *)
(* thread).  The store is the configured SQLite file: a transaction takes  *)
(* the write lock at its first flushed INSERT or UPDATE and holds it until *)
(* its commit; a query outside the lock holder's transaction reads the     *)
(* committed rows.  A session flushes what is pending before each query    *)
(* (autoflush) and in the commit.                                          *)

Committed == [products |-> products, listings |-> listings]

View(p) == IF writer = p THEN work ELSE Committed

CanWrite(p) == writer \in {"", p}

(* UPDATE ... SET: the unit of work writes the columns the session changed *)
ApplyDiff(cur, old, new) ==
    [c \in DOMAIN cur |-> IF new[c] /= old[c] THEN new[c] ELSE cur[c]]

UpdateRow(rows, old, new) ==
    {IF r.id = old.id THEN ApplyDiff(r, old, new) ELSE r : r \in rows}

(* The flush of one pending listing: INSERT of a new row, or UPDATE of the *)
(* row the session loaded.                                                 *)
FlushOne(db, op, source, t) ==
    IF op.old = {}
    THEN [db EXCEPT !.listings = @ \cup
            {SetListing(NewListing(@, op.product_id, op.sp.retailer), op.sp, source, t)}]
    ELSE LET old == CHOOSE l \in op.old : TRUE
         IN  [db EXCEPT !.listings = UpdateRow(@, old, SetListing(old, op.sp, source, t))]

RECURSIVE Flush(_, _, _, _)
Flush(db, pend, source, t) ==
    IF pend = <<>> THEN db
    ELSE Flush(FlushOne(db, Head(pend), source, t), Tail(pend), source, t)

AfterRecord(p, tx) ==
    IF tx.i < Len(tx.scraped)
    THEN [tx EXCEPT !.pc = "find", !.i = @ + 1]
    ELSE [tx EXCEPT !.pc = "commit"]

(* The caller enters upsert_products(scraped, source = p).                 *)
Begin(p) ==
    /\ txn[p].pc = "idle"
    /\ used < MaxRecords
    /\ \E scraped \in Batches(MaxRecords - used) :
         /\ used' = used + Cost(scraped)
         /\ txn' = [txn EXCEPT ![p] =
                [IdleTxn EXCEPT !.scraped = scraped,
                                !.pc = IF scraped = <<>> THEN "commit" ELSE "find",
                                !.i = IF scraped = <<>> THEN 0 ELSE 1]]
    /\ UNCHANGED <<storeVars, now, again, seen, last, writer, work, scrapeVars, schedVars, runVars, pureVars>>

(* Line 34: autoflush, then Product.query.filter_by(...).first()           *)
Find(p) ==
    LET tx == txn[p]
        sp == tx.scraped[tx.i]
        db == IF tx.pend = <<>> THEN View(p) ELSE Flush(View(p), tx.pend, p, now)
        found == FindProduct(db.products, sp.name, sp.brand)
    IN  /\ tx.pc = "find"
        /\ tx.pend /= <<>> => CanWrite(p)
        /\ txn' = [txn EXCEPT ![p] =
                [tx EXCEPT !.pc = "write", !.pend = <<>>,
                           !.prod = IF found = {} THEN {} ELSE {First(found)}]]
        /\ IF tx.pend = <<>>
           THEN UNCHANGED <<writer, work>>
           ELSE writer' = p /\ work' = db
        /\ UNCHANGED <<storeVars, histVars, scrapeVars, schedVars, runVars, pureVars>>

(* Lines 35-70: create the product and flush, or backfill the loaded one;  *)
(* query the listing (autoflush); create or modify it in the session.      *)
Write(p) ==
    LET tx == txn[p]
        sp == tx.scraped[tx.i]
        isNew == tx.prod = {}
        loaded == CHOOSE r \in tx.prod : TRUE
        filled == BackFill(loaded, sp)
        flushes == isNew \/ filled /= loaded
        db0 == View(p)
        product == IF isNew THEN NewProduct(db0.products, sp, now) ELSE filled
        db1 == IF isNew THEN [db0 EXCEPT !.products = @ \cup {product}]
               ELSE IF filled /= loaded
                    THEN [db0 EXCEPT !.products = UpdateRow(@, loaded, filled)]
                    ELSE db0
        lfound == FindListing(db1.listings, product.id, sp.retailer)
        op == [product_id |-> product.id, sp |-> sp,
               old |-> IF lfound = {} THEN {} ELSE {First(lfound)}]
    IN  /\ tx.pc = "write"
        /\ flushes => CanWrite(p)
        /\ txn' = [txn EXCEPT ![p] =
                AfterRecord(p, [tx EXCEPT !.pend = <<op>>, !.prod = {},
                                          !.created = IF isNew THEN @ + 1 ELSE @,
                                          !.upserted = @ + 1])]
        /\ IF flushes
           THEN writer' = p /\ work' = db1
           ELSE UNCHANGED <<writer, work>>
        /\ UNCHANGED <<storeVars, histVars, scrapeVars, schedVars, runVars, pureVars>>

(* Line 72: db.session.commit() flushes what is pending and commits.       *)
Commit(p) ==
    LET tx == txn[p]
        db == Flush(View(p), tx.pend, p, now)
    IN  /\ tx.pc = "commit"
        /\ CanWrite(p)
        /\ products' = db.products
        /\ listings' = db.listings
        /\ writer' = ""
        /\ work' = [products |-> {}, listings |-> {}]
        /\ txn' = [txn EXCEPT ![p] = [tx EXCEPT !.pc = "done", !.pend = <<>>]]
        /\ seen' = seen \cup Keys(tx.scraped)
        /\ UNCHANGED <<scrape_logs, now, used, again, last, scrapeVars, schedVars, runVars, pureVars>>

(* The catalog the concurrent calls start from: empty, or holding what an  *)
(* earlier run committed.                                                  *)
ConcInit ==
    /\ \E seed \in Batches(1) :
         LET r == upsert_products({}, {}, seed, "crawl4ai", 0, 0)
         IN  /\ products = r.products
             /\ listings = r.listings
             /\ seen = Keys(seed)
    /\ scrape_logs = <<>>
    /\ NoCallers
    /\ NoScrape
    /\ NoScheduler
    /\ NoRuns
    /\ NoFunction
    /\ now = 1
    /\ used = 0
    /\ again = <<>>
    /\ last = NoCall

ConcNext == \E p \in Procs : Begin(p) \/ Find(p) \/ Write(p) \/ Commit(p)

ConcSpec == ConcInit /\ [][ConcNext]_vars

(* C4: however two upsert_products calls on overlapping identity keys      *)
(* interleave, the committed catalog holds no second Product for a         *)
(* (name, brand) and no second Listing for a (product, retailer).          *)
C4_Serialised ==
    /\ \A p, q \in products : KeyOf(p) = KeyOf(q) => p = q
    /\ \A l, m \in listings :
          (l.product_id = m.product_id /\ l.retailer = m.retailer) => l = m

---------------------------------------------------------------------------
(* scrape_all: one scrape_retailer task per target, gathered               *)

MaxItems == 2     \* items on one fetched page

Everlywell == <<"E", "v", "e", "r", "l", "y", "w", "e", "l", "l">>

SCRAPE_TARGETS == <<
    [retailer |-> CVS, search_url |-> <<"h", "t", "t", "p", "s", ":", "/", "/", "w", "w", "w", ".", "c", "v", "s", ".", "c", "o", "m", "/", "s", "e", "a", "r", "c", "h", "?", "s", "e", "a", "r", "c", "h", "T", "e", "r", "m", "=", "w", "o", "m", "e", "n", "+", "h", "e", "a", "l", "t", "h", "+", "t", "e", "s", "t">>, logo |-> "https://www.cvs.com/favicon.ico"],
    [retailer |-> Walgreens, search_url |-> <<"h", "t", "t", "p", "s", ":", "/", "/", "w", "w", "w", ".", "w", "a", "l", "g", "r", "e", "e", "n", "s", ".", "c", "o", "m", "/", "s", "e", "a", "r", "c", "h", "/", "r", "e", "s", "u", "l", "t", "s", ".", "j", "s", "p", "?", "N", "t", "t", "=", "w", "o", "m", "e", "n", "+", "h", "e", "a", "l", "t", "h", "+", "t", "e", "s", "t">>, logo |-> "https://www.walgreens.com/favicon.ico"],
    [retailer |-> Everlywell, search_url |-> <<"h", "t", "t", "p", "s", ":", "/", "/", "w", "w", "w", ".", "e", "v", "e", "r", "l", "y", "w", "e", "l", "l", ".", "c", "o", "m", "/", "c", "o", "l", "l", "e", "c", "t", "i", "o", "n", "s", "/", "w", "o", "m", "e", "n", "s", "-", "h", "e", "a", "l", "t", "h">>, logo |-> "https://www.everlywell.com/favicon.ico"] >>

RETAILER_SCHEMAS(retailer) ==
    CASE retailer = CVS -> [base_url |-> <<"h", "t", "t", "p", "s", ":", "/", "/", "w", "w", "w", ".", "c", "v", "s", ".", "c", "o", "m">>]
      [] retailer = Walgreens -> [base_url |-> <<"h", "t", "t", "p", "s", ":", "/", "/", "w", "w", "w", ".", "w", "a", "l", "g", "r", "e", "e", "n", "s", ".", "c", "o", "m">>]
      [] retailer = Everlywell -> [base_url |-> <<"h", "t", "t", "p", "s", ":", "/", "/", "w", "w", "w", ".", "e", "v", "e", "r", "l", "y", "w", "e", "l", "l", ".", "c", "o", "m">>]
      [] OTHER -> NoSchema

(* Items a page can hold: a relative link and a brand in the name; a       *)
(* discounted item with an absolute link; an item with no price in its     *)
(* text; an item whose price is a number.                                  *)
RawBrand == [name |-> Str(<<" ", "C", "l", "e", "a", "r", "b", "l", "u", "e", " ", "R", "a", "p", "i", "d", " ">>), price |-> Str(<<"$", "1", "0", ".", "0", "0">>), url |-> Str(<<"/", "p", "/", "1">>)]
RawSale == [name |-> Str(<<"U", "T", "I", " ", "T", "e", "s", "t">>), price |-> Str(<<"8", ".", "5">>), original_price |-> Str(<<"$", "1", "0">>), url |-> Str(<<"h", "t", "t", "p", "s", ":", "/", "/", "c", ".", "c", "o", "m", "/", "u">>), image_url |-> Str(<<"i", ".", "p", "n", "g">>), description |-> Str(<<"s", "t", "r", "i", "p", "s">>)]
RawFree == [name |-> Str(<<"K", "i", "t">>), price |-> Str(<<"F", "r", "e", "e">>), url |-> Str(<<"/", "p", "/", "3">>)]
RawNumeric == [name |-> Str(<<"K", "i", "t">>), price |-> Num(<<"5">>)]

RawItems == {RawBrand, RawSale, RawFree, RawNumeric}

(* What crawler.arun does for one target: it raises, it returns a result   *)
(* with success False, or it returns extracted content, which is a JSON    *)
(* list of items or text that json.loads rejects.                          *)
Fetches ==
    {[kind |-> k, items |-> <<>>] : k \in {"raised", "unsuccessful", "malformed"}}
        \cup {[kind |-> "content", items |-> items] : items \in SeqsUpTo(RawItems, MaxItems)}

RECURSIVE NormalizeAll(_, _, _)
NormalizeAll(raw_items, k, target) ==       \* the loop of lines 484-487 from item k
    IF k > Len(raw_items) THEN Returned(<<>>)
    ELSE LET p == _normalize(raw_items[k], target.retailer, target.logo, target.search_url, RETAILER_SCHEMAS(target.retailer))
             rest == NormalizeAll(raw_items, k + 1, target)
         IN  IF p.raised \/ rest.raised THEN Raised
             ELSE Returned(p.value \o rest.value)

scrape_retailer(target, fetch) ==
    CASE fetch.kind = "raised" -> Raised
      [] fetch.kind = "unsuccessful" -> Returned(<<>>)
      [] fetch.kind = "malformed" -> Raised
      [] fetch.kind = "content" -> NormalizeAll(fetch.items, 1, target)

(* The source's unit of work failed: its page was not fetched, or what was *)
(* fetched could not be turned into records.                               *)
UnitFailed(target, fetch) ==
    fetch.kind /= "content" \/ scrape_retailer(target, fetch).raised

TargetLists ==
    {SCRAPE_TARGETS, SubSeq(SCRAPE_TARGETS, 1, 2), SubSeq(SCRAPE_TARGETS, 3, 3), <<>>}

ScrapeInit ==
    /\ EmptyStore
    /\ NoCallers
    /\ now = 0
    /\ used = 0
    /\ again = <<>>
    /\ seen = {}
    /\ last = NoCall
    /\ NoScheduler
    /\ NoRuns
    /\ NoFunction
    /\ targets \in TargetLists
    /\ results = [i \in 1 .. Len(targets) |-> <<>>]
    /\ returned = <<>>

(* One task runs to its end; the tasks end in any order.                   *)
TaskEnds(i) ==
    /\ returned = <<>>
    /\ i \in 1 .. Len(targets)
    /\ results[i] = <<>>
    /\ \E fetch \in Fetches :
         LET r == scrape_retailer(targets[i], fetch)
         IN  results' = [results EXCEPT ![i] =
                 <<[raised |-> r.raised, value |-> r.value, failed |-> UnitFailed(targets[i], fetch), kind |-> fetch.kind]>>]
    /\ UNCHANGED <<storeVars, histVars, concVars, schedVars, runVars, pureVars, targets, returned>>

RECURSIVE ExtendReversed(_, _)
ExtendReversed(rs, k) ==
    IF k > Len(rs) THEN <<>>
    ELSE LET v == IF rs[k][1].raised THEN <<>> ELSE rs[k][1].value
         IN  [n \in 1 .. Len(v) |-> v[Len(v) + 1 - n]] \o ExtendReversed(rs, k + 1)

RECURSIVE Extend(_, _)
Extend(rs, k) ==                            \* the loop of lines 508-512 from result k
    IF k > Len(rs) THEN <<>>
    ELSE (IF rs[k][1].raised THEN <<>> ELSE rs[k][1].value) \o Extend(rs, k + 1)

(* asyncio.gather with return_exceptions=True has every result; the       *)
(* exceptions are printed and the products of the others returned.         *)
Gather ==
    /\ returned = <<>>
    /\ \A i \in 1 .. Len(targets) : results[i] /= <<>>
    /\ returned' = <<Extend(results, 1)>>
    /\ UNCHANGED <<storeVars, histVars, concVars, schedVars, runVars, pureVars, targets, results>>

ScrapeNext == (\E i \in 1 .. 3 : TaskEnds(i)) \/ Gather

ScrapeSpec == ScrapeInit /\ [][ScrapeNext]_vars

(* What the caller of scrape_all holds: the list all_products (line 513), *)
(* and no entry for any source that failed.                                *)
Records(ret) == ret
FailureEntries(ret) == {}

RECURSIVE RecordsOfSucceeded(_, _)
RecordsOfSucceeded(rs, k) ==
    IF k > Len(rs) THEN <<>>
    ELSE (IF rs[k][1].failed THEN <<>> ELSE rs[k][1].value) \o RecordsOfSucceeded(rs, k + 1)

(* C5: when scrape_all has returned over targets of which some failed, its *)
(* result holds exactly the records of the sources that succeeded and      *)
(* exactly one failure entry for each source that failed.                  *)
C5_Isolation ==
    returned /= <<>> =>
        /\ Records(returned[1]) = RecordsOfSucceeded(results, 1)
        /\ Cardinality(FailureEntries(returned[1])) =
               Cardinality({i \in 1 .. Len(targets) : results[i][1].failed})

(* The event loop runs every task whose fetch completes to its end and     *)
(* then resumes scrape_all; nothing makes the fetch of the first target    *)
(* complete, and no statement of scrape_retailer or scrape_all ends a      *)
(* task whose fetch has not completed.                                     *)
ScrapeFair ==
    ScrapeSpec /\ WF_vars(Gather) /\ \A i \in 2 .. 3 : WF_vars(TaskEnds(i))

(* C15: scrape_all eventually returns even if the fetch of one source      *)
(* never completes.                                                        *)
C15_Timeout == <>(returned /= <<>>)

Outcome(i) == [raised |-> results[i][1].raised, value |-> results[i][1].value]

EmptyPage == [kind |-> "content", items |-> <<>>]

FetchFailed(i) == results[i] /= <<>> /\ results[i][1].kind \in {"unsuccessful", "malformed"}

(* C16: a source whose fetch reported failure or whose response was        *)
(* malformed ends with no exception, with an outcome other than that of a  *)
(* page of zero items, and has an entry in the failure list of the run.    *)
C16_Recorded ==
    \A i \in 1 .. Len(targets) : FetchFailed(i) =>
        /\ ~ Outcome(i).raised
        /\ Outcome(i) /= scrape_retailer(targets[i], EmptyPage)
        /\ returned /= <<>> => FailureEntries(returned[1]) /= {}

RecordsOf(ret, target) == SelectSeq(ret, LAMBDA sp : sp.retailer = target.retailer)

(* C19: the records of one source in the list scrape_all returns are the   *)
(* records its scrape_retailer made, in the order it made them.            *)
C19_SourceOrder ==
    returned /= <<>> => \A i \in 1 .. Len(targets) :
        RecordsOf(returned[1], targets[i]) =
            IF Outcome(i).raised THEN <<>> ELSE Outcome(i).value

(* C19 witness: scrape_all returned the records of two sources that made   *)
(* two different records each.                                             *)
C19_Witness ==
    /\ returned /= <<>> /\ Len(targets) = 3
    /\ Len(returned[1]) = 4
    /\ \E i, j \in 1 .. 3 :
         /\ i < j
         /\ Len(Outcome(i).value) = 2 /\ Outcome(i).value[1] /= Outcome(i).value[2]
         /\ Len(Outcome(j).value) = 2 /\ Outcome(j).value[1].name /= Outcome(j).value[2].name

(* C20: _normalize returns a record or a rejection for every item of a     *)
(* fetched page, so a task whose page was fetched and parsed ends without  *)
(* an exception.                                                           *)
C20_Total ==
    \A i \in 1 .. Len(targets) :
        (results[i] /= <<>> /\ results[i][1].kind = "content") => ~ Outcome(i).raised


---------------------------------------------------------------------------
(* scheduler.py: the two interval jobs under APScheduler's                 *)
(* BackgroundScheduler, with its defaults coalesce = True and              *)
(* max_instances = 1, which add_job leaves as they are.                    *)

interval_hours == 1   \* start_scheduler(app, interval_hours)
MaxLate == 14         \* steps by which the scheduler thread can be late

FirstRunCrawl == 300          \* next_run_time=_in_seconds(300)
FirstRunOutscraper == 600     \* next_run_time=_in_seconds(600)
misfire_grace_time == 3600
SecondsPerHour == 3600        \* IntervalTrigger(hours=...)

Steps(seconds) == seconds \div FirstRunCrawl   \* the clock steps by five minutes

Interval(j) ==
    IF j = "crawl4ai_refresh" THEN Steps(interval_hours * SecondsPerHour)
    ELSE Steps(interval_hours * 2 * SecondsPerHour)

FirstRunAfterInterval(j) == Interval(j)

FirstRun(j) ==
    IF j = "crawl4ai_refresh" THEN Steps(FirstRunCrawl) ELSE Steps(FirstRunOutscraper)

Grace == Steps(misfire_grace_time)

Period == Interval("outscraper_refresh")

max_instances == 1

Outcomes == {"succeeded", "failed", "raised"}   \* success row; failure row; exception

Due(j) == next_run_time[j] <= 0            \* get_due_jobs(now)

(* job._get_run_times(now): the fire times up to now, oldest first, each   *)
(* given as now minus the fire time.                                       *)
_get_run_times(j) ==
    [k \in 1 .. ((- next_run_time[j]) \div Interval(j)) + 1 |->
        (- next_run_time[j]) - (k - 1) * Interval(j)]

Coalesce(run_times) == <<run_times[Len(run_times)]>>       \* run_times[-1:]

AlwaysSubmit(j) == TRUE

CanSubmit(j) == instances[j] < max_instances     \* else MaxInstancesReachedError

NeverMisfired(late) == FALSE

Misfired(late) == late > Grace             \* run_job: difference > grace_time

NoNextFireTime(j, late) == - late

get_next_fire_time(j, late) == Interval(j) - late   \* previous_fire_time + interval

(* What _process_jobs does with one due job. *)
ProcessJob(j) ==
    LET all == _get_run_times(j)
        run_times == Coalesce(all)
        late == run_times[1]
        kind == IF ~CanSubmit(j) THEN "max_instances"
                ELSE IF Misfired(late) THEN "missed" ELSE "submitted"
    IN  [next |-> get_next_fire_time(j, late),
         inst |-> IF kind = "submitted" THEN instances[j] + 1 ELSE instances[j],
         event |-> [kind |-> kind, late |-> late > 0,
                    coalesced |-> Len(all) > 1 /\ all[Len(all) - 1] <= Grace]]

SchedInit ==                               \* start_scheduler has returned
    /\ EmptyStore
    /\ NoCallers
    /\ NoScrape
    /\ NoRuns
    /\ NoFunction
    /\ now = 0
    /\ used = 0
    /\ again = <<>>
    /\ seen = {}
    /\ last = NoCall
    /\ clock = 0
    /\ next_run_time = [j \in JobIds |-> FirstRun(j)]
    /\ instances = [j \in JobIds |-> 0]
    /\ event = [j \in JobIds |-> NoEvent]
    /\ outcome = [j \in JobIds |-> "none"]

Tick ==                                    \* five minutes pass
    /\ \A j \in JobIds : next_run_time[j] > - MaxLate
    /\ clock' = (clock + 1) % Period
    /\ next_run_time' = [j \in JobIds |-> next_run_time[j] - 1]
    /\ UNCHANGED <<storeVars, histVars, concVars, scrapeVars, runVars, pureVars, instances, event, outcome>>

ProcessJobs ==                             \* the scheduler thread wakes up
    /\ \E j \in JobIds : Due(j)
    /\ next_run_time' = [j \in JobIds |-> IF Due(j) THEN ProcessJob(j).next ELSE next_run_time[j]]
    /\ instances' = [j \in JobIds |-> IF Due(j) THEN ProcessJob(j).inst ELSE instances[j]]
    /\ event' = [j \in JobIds |-> IF Due(j) THEN ProcessJob(j).event ELSE event[j]]
    /\ UNCHANGED <<storeVars, histVars, concVars, scrapeVars, runVars, pureVars, clock, outcome>>

Finish(j) ==                               \* the job function returns or raises
    /\ instances[j] > 0
    /\ instances' = [instances EXCEPT ![j] = @ - 1]
    /\ \E o \in Outcomes : outcome' = [outcome EXCEPT ![j] = o]
    /\ UNCHANGED <<storeVars, histVars, concVars, scrapeVars, runVars, pureVars, clock, next_run_time, event>>

SchedNext == Tick \/ ProcessJobs \/ (\E j \in JobIds : Finish(j))

SchedSpec == SchedInit /\ [][SchedNext]_vars

(* The scheduler thread is woken at the next run time; it can be late, but *)
(* it is not late by more than the grace time at every tick of a job.      *)
Timely(j) == ProcessJobs /\ next_run_time[j] \in (- Grace) .. 0

SchedFair ==
    /\ SchedSpec
    /\ WF_vars(Tick)
    /\ WF_vars(ProcessJobs)
    /\ \A j \in JobIds : SF_vars(Timely(j))

Started(j) == instances'[j] = instances[j] + 1

(* C6: no job has two executions running; a tick that is processed while   *)
(* an execution of its job runs starts nothing and is left behind by the   *)
(* job's next run time, which never moves back, and an execution starts    *)
(* only for a tick that is due in that very step.                          *)
C6_SingleFlight ==
    /\ [](\A j \in JobIds : instances[j] <= 1)
    /\ [][\A j \in JobIds :
            /\ (ProcessJobs /\ Due(j) /\ instances[j] >= 1) =>
                   (instances'[j] = instances[j] /\ next_run_time'[j] > 0)
            /\ next_run_time'[j] >= next_run_time[j] - 1
            /\ Started(j) => (Due(j) /\ next_run_time'[j] > 0)]_vars

C6_Witness ==
    \E j \in JobIds : event[j].kind = "max_instances" /\ instances[j] = 1

(* C8: the step that starts an execution arms the next tick one interval   *)
(* after the tick it runs; the end of an execution, with any outcome,      *)
(* leaves that next run time in place and the job idle; and a job whose    *)
(* execution failed or raised is started again.                            *)
C8_NeverHalts ==
    /\ [][\A j \in JobIds :
            /\ Started(j) =>
                   next_run_time'[j] = Interval(j) - Coalesce(_get_run_times(j))[1]
            /\ instances'[j] < instances[j] =>
                   (next_run_time'[j] = next_run_time[j] /\ instances'[j] = 0)]_vars
    /\ \A j \in JobIds :
           (outcome[j] \in {"failed", "raised"} /\ instances[j] = 0) ~> (instances[j] > 0)

C8_Witness ==
    \E j \in JobIds :
        outcome[j] = "failed" /\ instances[j] = 1 /\ event[j].kind = "submitted"

OnSchedule(j) == (clock + next_run_time[j] - FirstRun(j)) % Interval(j) = 0

(* The tick of job j that is k-th in its due run times is executed by this *)
(* step: it is the run time handed to the execution that starts.           *)
Executed(j, k) == Started(j) /\ k = Len(_get_run_times(j))

(* C9 as stated: every due tick more than the grace time late is not       *)
(* executed, every due tick at most the grace time late is, and the next   *)
(* run time stays on the schedule that began at the first run time.        *)
C9_Original ==
    /\ [](\A j \in JobIds : OnSchedule(j))
    /\ [][ProcessJobs => \A j \in JobIds : Due(j) =>
            \A k \in 1 .. Len(_get_run_times(j)) :
                IF _get_run_times(j)[k] > Grace THEN ~Executed(j, k) ELSE Executed(j, k)]_vars

(* C9 amended: a due tick at most the grace time late is executed unless   *)
(* an execution of its job is still running or a later tick of the job is  *)
(* due as well.                                                            *)
C9_Misfire ==
    /\ [](\A j \in JobIds : OnSchedule(j))
    /\ [][ProcessJobs => \A j \in JobIds : Due(j) =>
            /\ next_run_time'[j] > 0
            /\ \A k \in 1 .. Len(_get_run_times(j)) :
                 /\ _get_run_times(j)[k] > Grace => ~Executed(j, k)
                 /\ (/\ _get_run_times(j)[k] <= Grace
                     /\ instances[j] = 0
                     /\ k = Len(_get_run_times(j))) => Executed(j, k)]_vars

C9_Witness ==
    /\ event["outscraper_refresh"].kind = "missed"
    /\ event["crawl4ai_refresh"].kind = "submitted"
    /\ event["crawl4ai_refresh"].late

(* start_scheduler with OUTSCRAPER_API_KEY set or unset: it reads no       *)
(* configuration and adds both jobs; _run_outscraper reads the key each    *)
(* time it runs and returns at once, writing no row, when it is unset.     *)
StartInit ==
    /\ EmptyStore
    /\ NoCallers
    /\ NoScrape
    /\ now = 0
    /\ used = 0
    /\ again = <<>>
    /\ seen = {}
    /\ last = NoCall
    /\ api_key \in BOOLEAN
    /\ NoFunction
    /\ run = NoRun
    /\ clock = 0
    /\ next_run_time = [j \in JobIds |-> FirstRun(j)]
    /\ instances = [j \in JobIds |-> 0]
    /\ event = [j \in JobIds |-> NoEvent]
    /\ outcome = [j \in JobIds |-> "none"]

JobReturns(j) ==                           \* the job function returns or raises
    /\ instances[j] > 0
    /\ instances' = [instances EXCEPT ![j] = @ - 1]
    /\ \E o \in (IF j = "outscraper_refresh" /\ ~api_key THEN {"skipped"} ELSE Outcomes) :
         outcome' = [outcome EXCEPT ![j] = o]
    /\ UNCHANGED <<storeVars, histVars, concVars, scrapeVars, runVars, pureVars, clock, next_run_time, event>>

StartNext == Tick \/ ProcessJobs \/ (\E j \in JobIds : JobReturns(j))

StartSpec == StartInit /\ [][StartNext]_vars

(* C17: with OUTSCRAPER_API_KEY unset the outscraper job is never          *)
(* processed by the scheduler and never runs to find the key missing.      *)
C17_FailFast ==
    ~api_key =>
        /\ event["outscraper_refresh"] = NoEvent
        /\ instances["outscraper_refresh"] = 0
        /\ outcome["outscraper_refresh"] /= "skipped"

---------------------------------------------------------------------------
(* Orchestrated runs: scrape, then upsert_products, then log_scrape, as    *)
(* the scheduler's jobs and the manual entry points make them.  A run is   *)
(* one step here; runs that overlap are the subject of ConcSpec.           *)

PageFetches == {f \in Fetches : Len(f.items) <= 1}

scrape_all(tgts, fetch) ==
    Extend([i \in 1 .. Len(tgts) |-> <<scrape_retailer(tgts[i], fetch[i])>>], 1)

(* Every list asyncio.run(scrape_all(SCRAPE_TARGETS)) can come back with. *)
ScrapeAllReturns ==
    {scrape_all(SCRAPE_TARGETS, fetch) : fetch \in [1 .. Len(SCRAPE_TARGETS) -> PageFetches]}

ScrapeRaised == [raised |-> TRUE, products |-> <<>>]

(* Lists search_all_categories can come back with. *)
ShoppingReturns(n) == SeqsUpTo({SampleFull, SampleOther}, n)

(* What the scrape step of a run of at most n records hands on.  The       *)
(* OutscraperShopping constructor raises when the key is empty or the      *)
(* outscraper package is missing; search_all_categories returns a list.    *)
Scrapes(source, n) ==
    IF source = "crawl4ai"
    THEN {[raised |-> FALSE, products |-> ps] : ps \in {l \in ScrapeAllReturns : Cost(l) <= n}}
    ELSE IF ~api_key THEN {ScrapeRaised}
    ELSE {ScrapeRaised} \cup {[raised |-> FALSE, products |-> ps] : ps \in ShoppingReturns(n)}

ScrapeLog(source, products_found, products_updated, errors, success, t) ==
    [retailer |-> "all", source |-> source, products_found |-> products_found, products_updated |-> products_updated, errors |-> errors, started_at |-> t, finished_at |-> t, success |-> success]

(* Where the store fails a run: in upsert_products at a record or at its   *)
(* commit, in the log_scrape of the success row, in the log_scrape of the  *)
(* except clause.                                                          *)
Faults == [upsert : 0 .. MaxRecords + 1, log : BOOLEAN, handler : BOOLEAN]

(* A fault strikes only at a statement the run gets to. *)
Strikes(scrape, fault, caught) ==
    /\ fault.upsert <= Len(scrape.products) + 1
    /\ scrape.raised => fault.upsert = 0
    /\ fault.log => (~scrape.raised /\ fault.upsert = 0)
    /\ fault.handler => (caught /\ (scrape.raised \/ fault.upsert /= 0 \/ fault.log))

LoggedCreated(u, scrape, source, t, fault) ==
    IF ~u.ok
    THEN [raised |-> "upsert_products", products |-> u.products, listings |-> u.listings, rows |-> <<>>]
    ELSE IF fault.log
    THEN [raised |-> "log_scrape", products |-> u.products, listings |-> u.listings, rows |-> <<>>]
    ELSE [raised |-> "", products |-> u.products, listings |-> u.listings,
          rows |-> <<ScrapeLog(source, Len(scrape.products), u.created, "", TRUE, t)>>]

(* What follows upsert_products in every run: its exception goes on, or a *)
(* success row is logged.  raised is the text of the exception that ended  *)
(* the statements, "" if none did.                                         *)
Logged(u, scrape, source, t, fault) ==
    IF ~u.ok
    THEN [raised |-> "upsert_products", products |-> u.products, listings |-> u.listings, rows |-> <<>>]
    ELSE IF fault.log
    THEN [raised |-> "log_scrape", products |-> u.products, listings |-> u.listings, rows |-> <<>>]
    ELSE [raised |-> "", products |-> u.products, listings |-> u.listings,
          rows |-> <<ScrapeLog(source, Len(scrape.products), u.upserted, "", TRUE, t)>>]

(* The success row is logged before upsert_products is called. *)
BodyLogsFirst(scrape, source, t, fault) ==
    IF scrape.raised
    THEN [raised |-> "scrape", products |-> products, listings |-> listings, rows |-> <<>>]
    ELSE [raised |-> "", products |-> products, listings |-> listings,
          rows |-> <<ScrapeLog(source, Len(scrape.products), Len(scrape.products), "", TRUE, t)>>]

(* The statements every run makes: the scrape's list goes to               *)
(* upsert_products and a success row is logged.                            *)
Body(scrape, source, t, fault) ==
    IF scrape.raised
    THEN [raised |-> "scrape", products |-> products, listings |-> listings, rows |-> <<>>]
    ELSE Logged(upsert_products(products, listings, scrape.products, source, t, fault.upsert), scrape, source, t, fault)

(* Nothing is around the body: its exception leaves the run. *)
Uncaught(b) ==
    [raised |-> b.raised, products |-> b.products, listings |-> b.listings,
     rows |-> b.rows, propagated |-> b.raised /= ""]

(* try: body; except Exception: log_scrape(success=False). *)
Caught(b, source, t, fault) ==
    IF b.raised = ""
    THEN [raised |-> "", products |-> b.products, listings |-> b.listings,
          rows |-> b.rows, propagated |-> FALSE]
    ELSE IF fault.handler
    THEN [raised |-> b.raised, products |-> b.products, listings |-> b.listings,
          rows |-> <<>>, propagated |-> TRUE]
    ELSE [raised |-> b.raised, products |-> b.products, listings |-> b.listings,
          rows |-> <<ScrapeLog(source, 0, 0, b.raised, FALSE, t)>>, propagated |-> FALSE]

Manual(scrape, source, t, fault) == Uncaught(Body(scrape, source, t, fault))     \* a manual run

Job(scrape, source, t, fault) == Caught(Body(scrape, source, t, fault), source, t, fault)   \* a scheduled run

(* The run did nothing: _run_outscraper returns, scrape-gs exits. *)
Skipped(raised, propagated) ==
    [raised |-> raised, products |-> products, listings |-> listings,
     rows |-> <<>>, propagated |-> propagated]

Ends(kind, source, scrape, r) ==
    /\ products' = r.products
    /\ listings' = r.listings
    /\ scrape_logs' = scrape_logs \o r.rows
    /\ now' = now + 1
    /\ used' = used + Cost(scrape.products)
    /\ seen' = IF r.raised \in {"", "log_scrape"} THEN seen \cup Keys(scrape.products) ELSE seen
    /\ run' = [kind |-> kind, source |-> source, scraped |-> scrape.products, raised |-> r.raised,
               rows |-> Len(r.rows), propagated |-> r.propagated]
    /\ UNCHANGED <<again, last, concVars, scrapeVars, schedVars, api_key, pureVars>>

RunInit ==
    /\ EmptyStore
    /\ NoCallers
    /\ NoScrape
    /\ NoScheduler
    /\ now = 0
    /\ used = 0
    /\ again = <<>>
    /\ seen = {}
    /\ last = NoCall
    /\ api_key \in BOOLEAN
    /\ NoFunction
    /\ run = NoRun

_run_crawl4ai ==
    /\ used < MaxRecords
    /\ \E scrape \in Scrapes("crawl4ai", MaxRecords - used), fault \in Faults :
         /\ Strikes(scrape, fault, TRUE)
         /\ Ends("crawl4ai_refresh", "crawl4ai", scrape, Job(scrape, "crawl4ai", now + 1, fault))

_run_outscraper ==
    /\ used < MaxRecords
    /\ IF ~api_key
       THEN Ends("outscraper_refresh", "outscraper", ScrapeRaised, Skipped("", FALSE))
       ELSE \E scrape \in Scrapes("outscraper", MaxRecords - used), fault \in Faults :
              /\ Strikes(scrape, fault, TRUE)
              /\ Ends("outscraper_refresh", "outscraper", scrape, Job(scrape, "outscraper", now + 1, fault))

api_scrape ==
    /\ used < MaxRecords
    /\ \E source \in Sources :
         \E scrape \in Scrapes(source, MaxRecords - used), fault \in Faults :
           /\ Strikes(scrape, fault, FALSE)
           /\ Ends("api_scrape", source, scrape, Manual(scrape, source, now + 1, fault))

scrape ==
    /\ used < MaxRecords
    /\ \E scraped \in Scrapes("crawl4ai", MaxRecords - used), fault \in Faults :
         /\ Strikes(scraped, fault, FALSE)
         /\ Ends("scrape", "crawl4ai", scraped, Manual(scraped, "crawl4ai", now + 1, fault))

scrape_gs ==
    /\ used < MaxRecords
    /\ IF ~api_key
       THEN Ends("scrape-gs", "outscraper", ScrapeRaised, Skipped("SystemExit", TRUE))
       ELSE \E scraped \in Scrapes("outscraper", MaxRecords - used), fault \in Faults :
              /\ Strikes(scraped, fault, FALSE)
              /\ Ends("scrape-gs", "outscraper", scraped, Manual(scraped, "outscraper", now + 1, fault))

RunNext == _run_crawl4ai \/ _run_outscraper \/ api_scrape \/ scrape \/ scrape_gs

RunSpec == RunInit /\ [][RunNext]_vars

Scheduled == {"crawl4ai_refresh", "outscraper_refresh"}

(* C7: a scheduled run whose body raised has appended one row, with        *)
(* success false and the error's text, and has let no exception out of the *)
(* job function.                                                           *)
C7_Contained ==
    (run.kind \in Scheduled /\ run.raised /= "") =>
        /\ run.rows = 1
        /\ scrape_logs /= <<>>
        /\ ~scrape_logs[Len(scrape_logs)].success
        /\ scrape_logs[Len(scrape_logs)].errors = run.raised
        /\ ~run.propagated

(* C10: every run, scheduled or manual, succeeding or failing, has         *)
(* appended exactly one ScrapeLog row.                                     *)
C10_OneRowPerRun ==
    /\ run.kind /= "none" => run.rows = 1
    /\ Len(scrape_logs) = now

IsRun == now' /= now                      \* this step is one run, from start to end

RowAdded == Len(scrape_logs') = Len(scrape_logs) + 1

NewRow == scrape_logs'[Len(scrape_logs')]

BodyRan == run'.source = "crawl4ai" \/ api_key    \* the run got to its scrape

Triples(scraped) == {<<scraped[i].name, scraped[i].brand, scraped[i].retailer>> : i \in 1 .. Len(scraped)}

FreshDistinct ==
    /\ products = {} /\ listings = {}
    /\ IsRun /\ BodyRan /\ run'.raised = ""
    /\ Cardinality(Triples(run'.scraped)) = Len(run'.scraped)

RowOfRun ==
    /\ RowAdded
    /\ NewRow.products_found = Len(run'.scraped)
    /\ NewRow.products_updated = Len(run'.scraped)
    /\ NewRow.success

(* C25 as stated: a run on an empty catalog whose n records have pairwise  *)
(* distinct (name, brand, retailer) ends with n products, n listings and   *)
(* one more audit row, with products_found = n, products_updated = n and   *)
(* success true.                                                           *)
C25_Original ==
    [][FreshDistinct =>
        /\ Cardinality(products') = Len(run'.scraped)
        /\ Cardinality(listings') = Len(run'.scraped)
        /\ RowOfRun]_vars

(* C25 amended: as stated, but the products are as many as the distinct    *)
(* (name, brand) pairs of the n records.                                   *)
C25_EndToEnd ==
    [][FreshDistinct =>
        /\ Cardinality(products') = Cardinality(Keys(run'.scraped))
        /\ Cardinality(listings') = Len(run'.scraped)
        /\ RowOfRun]_vars

(* C25 witness: the first run, a scheduled crawl, had two records of one   *)
(* product at two retailers and left one product, two listings and a row   *)
(* with 2 found and 2 updated.                                             *)
C25_Witness ==
    /\ now = 1 /\ run.kind = "crawl4ai_refresh" /\ run.raised = ""
    /\ Len(run.scraped) = 2 /\ Cardinality(Triples(run.scraped)) = 2
    /\ Cardinality(products) = 1 /\ Cardinality(listings) = 2
    /\ Len(scrape_logs) = 1
    /\ scrape_logs[1].products_found = 2 /\ scrape_logs[1].products_updated = 2
    /\ scrape_logs[1].success

(* C26: a scheduled run that ends by appending a row with success false    *)
(* leaves products and listings as they were when it started.              *)
C26_NothingRetained ==
    [][(IsRun /\ run'.kind \in Scheduled /\ RowAdded /\ ~NewRow.success) =>
           (products' = products /\ listings' = listings)]_vars

ListingOf(sp, prods, lsts) ==
    {l \in lsts : l.retailer = sp.retailer /\
                  \E p \in prods : p.id = l.product_id /\ KeyOf(p) = <<sp.name, sp.brand>>}

(* C27: a run that appends a row with success true and products_updated k  *)
(* has k records, and the listing of each of them is in the catalog,       *)
(* written by this run, in the state that holds the row.                   *)
C27_RowAfterCommit ==
    [][(IsRun /\ RowAdded /\ NewRow.success) =>
        /\ NewRow.products_updated = Len(run'.scraped)
        /\ \A i \in 1 .. Len(run'.scraped) :
             \E l \in ListingOf(run'.scraped[i], products', listings') :
                 l.scraped_at = now' /\ l.source = NewRow.source]_vars

(* C27 witness: a run with two records appended a success row and both     *)
(* listings are there.                                                     *)
C27_Witness ==
    /\ run.rows = 1 /\ run.raised = "" /\ Len(run.scraped) = 2
    /\ scrape_logs[Len(scrape_logs)].success
    /\ scrape_logs[Len(scrape_logs)].products_updated = 2
    /\ \A i \in 1 .. 2 : \E l \in ListingOf(run.scraped[i], products, listings) : l.scraped_at = now

(* C28: in every audit row products_found equals products_updated; the     *)
(* row a run appends has both equal to the number of the run's records if  *)
(* success is true and both 0 if it is false.                              *)
C28_CountsCoincide ==
    /\ [](\A i \in 1 .. Len(scrape_logs) :
            scrape_logs[i].products_found = scrape_logs[i].products_updated)
    /\ [][(IsRun /\ RowAdded) =>
            NewRow.products_found = IF NewRow.success THEN Len(run'.scraped) ELSE 0]_vars

(* C28 witness: the log holds a failure row with 0 and 0 and a success row *)
(* with 2 and 2 for a run whose two records made one product.              *)
C28_Witness ==
    /\ Len(scrape_logs) = 2
    /\ ~scrape_logs[1].success /\ scrape_logs[1].products_found = 0
    /\ scrape_logs[2].success /\ scrape_logs[2].products_found = 2
    /\ Len(run.scraped) = 2 /\ Cardinality(products) = 1

---------------------------------------------------------------------------
(* The functions of the scrapers on their own: FnSpec starts with one      *)
(* function and its arguments and applies the function to them.            *)

(* A retailer with no entry in RETAILER_SCHEMAS, which scrape_retailer     *)
(* takes with use_llm=True.                                                *)
Nurx == <<"N", "u", "r", "x">>

UnregisteredTarget ==
    [retailer |-> Nurx, search_url |-> <<"h", "t", "t", "p", "s", ":", "/", "/", "w", "w", "w", ".", "n", "u", "r", "x", ".", "c", "o", "m", "/", "s", "e", "a", "r", "c", "h", "?", "q", "=", "t", "e", "s", "t">>, logo |-> "https://www.nurx.com/favicon.ico"]

NormalizeTargets == {SCRAPE_TARGETS[1], UnregisteredTarget}

RawNames == {Str(<<" ", "C", "l", "e", "a", "r", "b", "l", "u", "e", " ", "R", "a", "p", "i", "d", " ">>), Str(<<"K", "i", "t">>), Str(<<>>)}

RawPrices == {Str(<<"$", "1", "0", ".", "0", "0">>), Str(<<"F", "r", "e", "e">>)}

RawOriginals == {Str(<<"$", "1", "2">>), Str(<<"$", "1", "0", ".", "0", "0">>), Str(<<"$", "5">>), Str(<<"n", "/", "a">>)}

RawUrls == {Str(<<"/", "p", "/", "1">>), Str(<<"h", "t", "t", "p", "s", ":", "/", "/", "c", ".", "c", "o", "m", "/", "u">>)}

NormalizeItems ==
    {[name |-> n, price |-> p, url |-> u] : n \in RawNames, p \in RawPrices, u \in RawUrls}
        \cup {[name |-> n, price |-> p, url |-> u, original_price |-> o] :
                 n \in RawNames, p \in RawPrices, u \in RawUrls, o \in RawOriginals}

NormalizeCalls ==
    {[fn |-> "_normalize", raw_item |-> r, target |-> t] :
         r \in NormalizeItems, t \in NormalizeTargets}

PriceTexts ==
    {<<"$", "2", "4", ".", "9", "9">>, <<"$", "1", ",", "2", "3", "4", ".", "5", "6">>, <<"2", "4">>, <<>>, <<"F", "r", "e", "e">>, <<"-", "5">>, <<".", "9", "9">>,
     <<"1", ".", "2", ".", "3">>, <<"2", "4", ".">>, <<"2", " ", "f", "o", "r", " ", "$", "7", ".", "5", "0">>, <<",">>, <<"U", "S", "D", " ", "1", ",", "0", "0", "0">>}

PriceCalls ==
    {[fn |-> "_parse_price", module |-> m, raw |-> Str(s)] :
         m \in {"crawl4ai_scraper", "outscraper_client"}, s \in PriceTexts}
        \cup {[fn |-> "_parse_price", module |-> m, raw |-> Num(<<"5">>)] :
                 m \in {"crawl4ai_scraper", "outscraper_client"}}

CategoryNames ==
    {<<"P", "r", "e", "g", "n", "a", "n", "c", "y", " ", "H", "o", "r", "m", "o", "n", "e", " ", "T", "e", "s", "t">>, <<"H", "o", "r", "m", "o", "n", "e", " ", "P", "a", "n", "e", "l">>, <<"F", "S", "H", " ", "M", "e", "n", "o", "p", "a", "u", "s", "e", " ", "T", "e", "s", "t">>,
     <<"V", "i", "t", "a", "m", "i", "n", " ", "D">>, <<"U", "T", "I", " ", "S", "t", "r", "i", "p", "s">>, <<"P", "C", "O", "S", " ", "G", "e", "n", "e", "t", "i", "c", " ", "K", "i", "t">>, <<"E", "a", "r", "l", "y", " ", "R", "e", "s", "u", "l", "t">>}

CategoryDescriptions ==
    {<<>>, <<"d", "e", "t", "e", "c", "t", "s", " ", "t", "h", "e", " ", "p", "r", "e", "g", "n", "a", "n", "c", "y", " ", "h", "o", "r", "m", "o", "n", "e", " ", "h", "C", "G">>, <<"p", "r", "o", "g", "e", "s", "t", "e", "r", "o", "n", "e", " ", "a", "n", "d", " ", "t", "h", "y", "r", "o", "i", "d">>, <<"p", "h", " ", "b", "a", "l", "a", "n", "c", "e">>}

CategoryCalls ==
    {[fn |-> "_infer_category", name |-> n, description |-> d] :
         n \in CategoryNames, d \in CategoryDescriptions}

(* outscraper_client.py *)

ItemGet(item, key) ==                      \* item.get(key): None reads as ""
    IF key \in DOMAIN item THEN item[key] ELSE Str(<<>>)

(* outscraper_client._parse_price: a number is returned as a float, and a  *)
(* string goes through the same expression as in crawl4ai_scraper.         *)
outscraper_parse_price(raw) ==
    IF raw.t = "num" THEN Returned(Some(1000 * IntOf(raw.v))) ELSE _parse_price(raw)

Unknown == <<"U", "n", "k", "n", "o", "w", "n">>
GoogleShopping == <<"G", "o", "o", "g", "l", "e", " ", "S", "h", "o", "p", "p", "i", "n", "g">>

FirstOr(item, keys, default) ==            \* item.get(k1) or item.get(k2) or ... or default
    IF \E i \in 1 .. Len(keys) : ~Falsy(ItemGet(item, keys[i]))
    THEN ItemGet(item, keys[CHOOSE i \in 1 .. Len(keys) :
             ~Falsy(ItemGet(item, keys[i])) /\ \A j \in 1 .. i - 1 : Falsy(ItemGet(item, keys[j]))]).v
    ELSE default

_build_product(item, category) ==
    LET name == Strip(FirstOr(item, <<"title">>, <<>>))
        price == outscraper_parse_price(ItemGet(item, "price"))
        original_price == outscraper_parse_price(ItemGet(item, "old_price"))
    IN  IF ~Truthy(name) \/ price.value = None THEN Returned(<<>>)
        ELSE Returned(<<ScrapedProduct(name, FirstOr(item, <<"brand", "seller", "store">>, Unknown), price.value[1], FirstOr(item, <<"link">>, <<>>), FirstOr(item, <<"store", "seller">>, GoogleShopping), "", original_price.value, FirstOr(item, <<"thumbnail">>, <<>>), FirstOr(item, <<"description">>, <<>>), category, TRUE, <<>>, ScrapeTime)>>)

ShoppingTitles == {Str(<<"K", "i", "t">>), Str(<<"U", "T", "I", " ", "T", "e", "s", "t">>), Str(<<>>)}

ShoppingPrices == {Num(<<"1", "0">>), Str(<<"$", "1", "0", ".", "0", "0">>), Str(<<"C", "a", "l", "l">>)}

ShoppingOldPrices == {Num(<<"1", "2">>), Num(<<"1", "0">>), Str(<<"$", "5">>)}

ShoppingItems ==
    {[title |-> n, price |-> p, store |-> Str(CVS)] : n \in ShoppingTitles, p \in ShoppingPrices}
        \cup {[title |-> n, price |-> p, store |-> Str(CVS), old_price |-> o] :
                 n \in ShoppingTitles, p \in ShoppingPrices, o \in ShoppingOldPrices}
        \cup {[title |-> n, seller |-> Str(Acme)] : n \in ShoppingTitles}

BuildCalls ==
    {[fn |-> "_build_product", item |-> i, category |-> c] :
         i \in ShoppingItems, c \in {"Pregnancy", "UTI"}}

MaxQueries == 3   \* entries of the queries map handed to search_all_categories

SHOPPING_QUERIES ==                        \* the keys, in the order of the dict
    <<"Pregnancy", "Ovulation & Fertility", "STI / STD", "Menopause & FSH", "Thyroid",
      "Hormone Panel", "UTI", "Vaginal Health", "PCOS", "General Wellness">>

ShoppingKit == [title |-> Str(<<"K", "i", "t">>), price |-> Num(<<"1", "0">>), store |-> Str(CVS)]
ShoppingSale == [title |-> Str(<<"U", "T", "I", " ", "T", "e", "s", "t">>), price |-> Str(<<"$", "8", ".", "5", "0">>), old_price |-> Num(<<"1", "2">>), seller |-> Str(Acme)]
ShoppingAd == [title |-> Str(<<"K", "i", "t">>), price |-> Str(<<"C", "a", "l", "l">>)]

(* What self._client.google_shopping does for one query: it raises, or it  *)
(* returns a list holding the list of the query's items.                   *)
Responses ==
    {[kind |-> "raised", items |-> <<>>]}
        \cup {[kind |-> "content", items |-> items] :
                 items \in {<<>>, <<ShoppingKit>>, <<ShoppingSale, ShoppingAd, ShoppingKit>>}}

RECURSIVE BuildAll(_, _, _)
BuildAll(raw_items, k, category) ==         \* the loop of lines 178-181 from item k
    IF k > Len(raw_items) THEN <<>>
    ELSE _build_product(raw_items[k], category).value \o BuildAll(raw_items, k + 1, category)

search_category(category, response) ==
    IF response.kind = "raised" THEN <<>>  \* except Exception: return []
    ELSE BuildAll(response.items, 1, category)

RECURSIVE search_until_raised(_, _, _)
search_until_raised(queries, responses, k) ==
    IF k > Len(queries) \/ responses[k].kind = "raised" THEN <<>>
    ELSE search_category(queries[k], responses[k]) \o search_until_raised(queries, responses, k + 1)

RECURSIVE search_all_categories(_, _, _)
search_all_categories(queries, responses, k) ==   \* the loop of lines 205-207 from entry k
    IF k > Len(queries) THEN <<>>
    ELSE search_category(queries[k], responses[k]) \o search_all_categories(queries, responses, k + 1)

RECURSIVE ResponseLists(_)
ResponseLists(n) ==
    IF n = 0 THEN {<<>>}
    ELSE {Append(q, r) : q \in ResponseLists(n - 1), r \in Responses}

SearchCalls ==
    {[fn |-> "search_all_categories", queries |-> SubSeq(SHOPPING_QUERIES, 1, Len(rs)), responses |-> rs] :
         rs \in UNION {ResponseLists(n) : n \in 1 .. MaxQueries}}

FnCalls == NormalizeCalls \cup PriceCalls \cup CategoryCalls \cup BuildCalls \cup SearchCalls

FnInit ==
    /\ EmptyStore
    /\ NoCallers
    /\ NoScrape
    /\ NoScheduler
    /\ NoRuns
    /\ now = 0
    /\ used = 0
    /\ again = <<>>
    /\ seen = {}
    /\ last = NoCall
    /\ args \in FnCalls
    /\ value = NotReturned

Pending(fn) == args.fn = fn /\ value = NotReturned

Returns(r) ==
    /\ value' = <<r>>
    /\ UNCHANGED <<storeVars, histVars, concVars, scrapeVars, schedVars, runVars, args>>

Normalize ==
    /\ Pending("_normalize")
    /\ Returns(_normalize(args.raw_item, args.target.retailer, args.target.logo, args.target.search_url, RETAILER_SCHEMAS(args.target.retailer)))

ParsePrice ==
    /\ Pending("_parse_price")
    /\ Returns(IF args.module = "crawl4ai_scraper" THEN _parse_price(args.raw) ELSE outscraper_parse_price(args.raw))

InferCategory ==                           \* called, and called again
    /\ args.fn = "_infer_category"
    /\ Returns(Returned(_infer_category(args.name, args.description)))

BuildProduct ==
    /\ Pending("_build_product")
    /\ Returns(_build_product(args.item, args.category))

SearchAllCategories ==
    /\ Pending("search_all_categories")
    /\ Returns(Returned(search_all_categories(args.queries, args.responses, 1)))

FnNext == Normalize \/ ParsePrice \/ InferCategory \/ BuildProduct \/ SearchAllCategories

FnSpec == FnInit /\ [][FnNext]_vars


Accepted == value /= NotReturned /\ ~value[1].raised /\ value[1].value /= <<>>

(* C21: a record made by _normalize or _build_product carries an           *)
(* original_price only if it is greater than the record's price.           *)
C21_OnlyGreater ==
    (args.fn \in {"_normalize", "_build_product"} /\ Accepted) =>
        \/ value[1].value[1].original_price = None
        \/ value[1].value[1].original_price[1] > value[1].value[1].price

RelativeUrl(raw_item) ==
    "url" \in DOMAIN raw_item /\ Truthy(raw_item.url.v) /\ ~StartsWith(raw_item.url.v, Http)

(* C22: the url of a record made from a relative url does not start with   *)
(* the search url that scrape_retailer navigated to.                       *)
C22_JoinBase ==
    (args.fn = "_normalize" /\ Accepted /\ RelativeUrl(args.raw_item)) =>
        ~StartsWith(value[1].value[1].url, RStripChar(args.target.search_url, "/"))

RuleOrder ==
    <<"Pregnancy", "Ovulation & Fertility", "STI / STD", "Menopause & FSH", "Thyroid",
      "Hormone Panel", "UTI", "Vaginal Health", "PCOS", "Breast Cancer Risk">>

AnyKeyword(text, i) ==
    \E k \in 1 .. Len(CategoryRules[i].keywords) : Contains(text, CategoryRules[i].keywords[k])

CategoryText == Lower(args.name \o <<" ">> \o args.description)

(* C23: _infer_category returns the category of the first rule, in the     *)
(* order Pregnancy ... Breast Cancer Risk, one of whose keywords is in the *)
(* lower-cased name and description, and General Wellness if there is      *)
(* none; a text with a pregnancy keyword and a hormone keyword gives       *)
(* Pregnancy; and a second call with the same arguments returns the same.  *)
C23_FirstRule ==
    /\ []((args.fn = "_infer_category" /\ value /= NotReturned) =>
            /\ \A i \in 1 .. Len(RuleOrder) :
                  (value[1].value = RuleOrder[i]) <=>
                      (AnyKeyword(CategoryText, i) /\ \A j \in 1 .. i - 1 : ~AnyKeyword(CategoryText, j))
            /\ (value[1].value = "General Wellness") <=>
                  (\A i \in 1 .. Len(RuleOrder) : ~AnyKeyword(CategoryText, i))
            /\ (AnyKeyword(CategoryText, 1) /\ AnyKeyword(CategoryText, 6)) =>
                  value[1].value = "Pregnancy")
    /\ [][(args.fn = "_infer_category" /\ value /= NotReturned) => value' = value]_vars

(* C23 witness: a name with a pregnancy keyword and a hormone keyword was  *)
(* classified Pregnancy.                                                   *)
C23_Witness ==
    /\ args.fn = "_infer_category" /\ value /= NotReturned
    /\ args.name = <<"P", "r", "e", "g", "n", "a", "n", "c", "y", " ", "H", "o", "r", "m", "o", "n", "e", " ", "T", "e", "s", "t">>
    /\ AnyKeyword(CategoryText, 6)
    /\ value[1].value = "Pregnancy"

HasDigit(s) == \E i \in 1 .. Len(s) : IsDigit(s[i])

FirstDigitRun(s) ==
    LET i == CHOOSE k \in 1 .. Len(s) : IsDigit(s[k]) /\ \A m \in 1 .. k - 1 : ~IsDigit(s[m])
    IN  SubSeq(s, i, DigitRunEnd(s, i))

ParsedText(s) == args.fn = "_parse_price" /\ args.raw = Str(s) /\ value /= NotReturned

(* C24: on a string _parse_price of either scraper does not raise; it      *)
(* returns None exactly when the string has no digit, and otherwise a      *)
(* value that is not negative and whose whole part is the first run of     *)
(* digits, thousands separators dropped; "$24.99" gives 24.99,             *)
(* "$1,234.56" gives 1234.56, "24" gives 24.0, "" and "Free" give None.    *)
C24_ParsePrice ==
    /\ (args.fn = "_parse_price" /\ args.raw.t = "str" /\ value /= NotReturned) =>
          /\ ~value[1].raised
          /\ (value[1].value = None) <=> ~HasDigit(args.raw.v)
          /\ value[1].value /= None =>
                /\ value[1].value[1] >= 0
                /\ value[1].value[1] \div 1000 = IntOf(FirstDigitRun(Replace(args.raw.v, ",")))
    /\ ParsedText(<<"$", "2", "4", ".", "9", "9">>) => value[1].value = Some(24990)
    /\ ParsedText(<<"$", "1", ",", "2", "3", "4", ".", "5", "6">>) => value[1].value = Some(1234560)
    /\ ParsedText(<<"2", "4">>) => value[1].value = Some(24000)
    /\ ParsedText(<<>>) => value[1].value = None
    /\ ParsedText(<<"F", "r", "e", "e">>) => value[1].value = None

(* C24 witness: "$1,234.56" was parsed by the _parse_price of              *)
(* outscraper_client.                                                      *)
C24_Witness ==
    /\ ParsedText(<<"$", "1", ",", "2", "3", "4", ".", "5", "6">>) /\ args.module = "outscraper_client"
    /\ value[1].value = Some(1234560)

OfCategory(records, category) == SelectSeq(records, LAMBDA sp : sp.category = category)

QueryIndex(category) == CHOOSE k \in 1 .. Len(SHOPPING_QUERIES) : SHOPPING_QUERIES[k] = category

(* C30: search_all_categories returns; a category whose API call raised    *)
(* has no record in the result, every other category has the records of    *)
(* its own items in their order, and the records are in the order of the   *)
(* queries map.                                                            *)
C30_QueryIsolation ==
    (args.fn = "search_all_categories" /\ value /= NotReturned) =>
        /\ ~value[1].raised
        /\ \A k \in 1 .. Len(args.queries) :
             OfCategory(value[1].value, args.queries[k]) =
                 IF args.responses[k].kind = "raised" THEN <<>>
                 ELSE BuildAll(args.responses[k].items, 1, args.queries[k])
        /\ \A i, j \in 1 .. Len(value[1].value) :
             i < j => QueryIndex(value[1].value[i].category) <= QueryIndex(value[1].value[j].category)

(* C30 witness: the call of the second of three categories raised, and     *)
(* the result holds the records of the first and the third.                *)
C30_Witness ==
    /\ args.fn = "search_all_categories" /\ value /= NotReturned
    /\ Len(args.queries) = 3
    /\ args.responses[1].items = <<ShoppingKit>>
    /\ args.responses[2].kind = "raised"
    /\ Len(args.responses[3].items) = 3
    /\ Len(value[1].value) = 3
    /\ value[1].value[3].category = "STI / STD"

=============================================================================
